---- MODULE Spec2Model ----
(***************************************************************************)
(* Model of the shortlink-url service (server.go): the Base62 code         *)
(* generator, the PostgreSQL store (table urls and its sequence            *)
(* urls_id_seq) and the HTTP handlers that use them.                       *)
(*                                                                         *)
(* A short code is modelled as a sequence of one-character strings, so     *)
(* that encoding and decoding are computed digit by digit.                 *)
(***************************************************************************)
EXTENDS Integers, Sequences, FiniteSets, Bags

VARIABLES
    seq,        \* last value handed out by the sequence urls_id_seq
    urls,       \* rows of table urls: [id, short_code, original_url]
    pc,         \* per POST request slot: "idle" or "save" (between its two store calls)
    req,        \* per request slot: locals of the POST handler (URL, id, shortCode)
    resp,       \* the HTTP response written last, with what its handler logged
    allocated,  \* history: the ids returned by successful GetNextID calls, in order
    created,    \* history: bag of the (code, url) pairs answered with 201
    encA, encB, \* encoder harness: the two inputs
    outA, outB, \* encoder harness: generateShortCode of the two inputs
    decA,       \* encoder harness: the decoding of outA
    encPc,      \* encoder harness: "input", "encoded" or "decoded" ("off" under Spec)
    ret,        \* store harness: what the last direct call of a Database method returned
    wideId,     \* 64-bit encoder harness: the input, as limbs
    wideCode    \* 64-bit encoder harness: the code of wideId, <<>> before it is computed

svcVars == <<seq, urls, pc, req, resp, allocated, created>>
encVars == <<encA, encB, outA, outB, decA, encPc>>
harnessVars == <<encA, encB, outA, outB, decA, encPc, ret, wideId, wideCode>>
vars == <<seq, urls, pc, req, resp, allocated, created,
          encA, encB, outA, outB, decA, encPc, ret, wideId, wideCode>>

----------------------------------------------------------------------------
(* Bounds *)

NumReqs == 2        \* POST /shorten requests handled concurrently
MaxSeq == 5         \* the sequence is not advanced beyond this value
MaxN == 130         \* encoder inputs range over 0..MaxN (and the examples)
MaxNeg == 2         \* encoder inputs range down to -MaxNeg
MaxStoreSeq == 4    \* store harness: the sequence is not advanced beyond this value

Reqs == 1..NumReqs

----------------------------------------------------------------------------
(* The code generator *)

base62Chars ==
    << "0","1","2","3","4","5","6","7","8","9",
       "a","b","c","d","e","f","g","h","i","j","k","l","m",
       "n","o","p","q","r","s","t","u","v","w","x","y","z",
       "A","B","C","D","E","F","G","H","I","J","K","L","M",
       "N","O","P","Q","R","S","T","U","V","W","X","Y","Z" >>

Base == 62

\* The loop of generateShortCode: for id > 0 { result = chars[id % 62] + result; id /= 62 }
RECURSIVE shortCodeLoop(_, _)
shortCodeLoop(id, result) ==
    IF id > 0
    THEN shortCodeLoop(id \div Base, <<base62Chars[(id % Base) + 1]>> \o result)
    ELSE result

\* Variant: the digit is appended instead of prepended
RECURSIVE shortCodeLoop_append(_, _)
shortCodeLoop_append(id, result) ==
    IF id > 0
    THEN shortCodeLoop_append(id \div Base, result \o <<base62Chars[(id % Base) + 1]>>)
    ELSE result

generateShortCode_append(id) ==
    IF id = 0
    THEN <<base62Chars[1]>>
    ELSE shortCodeLoop_append(id, <<>>)

\* Variant: the digit overwrites the result (the "+ result" is missing)
RECURSIVE shortCodeLoop_overwrite(_, _)
shortCodeLoop_overwrite(id, result) ==
    IF id > 0
    THEN shortCodeLoop_overwrite(id \div Base, <<base62Chars[(id % Base) + 1]>>)
    ELSE result

generateShortCode_overwrite(id) ==
    IF id = 0
    THEN <<base62Chars[1]>>
    ELSE shortCodeLoop_overwrite(id, <<>>)

\* Variant: the special case for 0 is missing
generateShortCode_noZeroCase(id) == shortCodeLoop(id, <<>>)

\* Variant: codes are padded with zeros to a width of two characters
generateShortCode_padded(id) ==
    IF id = 0
    THEN <<base62Chars[1]>>
    ELSE LET code == shortCodeLoop(id, <<>>)
         IN  IF Len(code) < 2 THEN <<base62Chars[1]>> \o code ELSE code

\* Variant: the sign is dropped before the loop
generateShortCode_abs(id) ==
    IF id = 0
    THEN <<base62Chars[1]>>
    ELSE shortCodeLoop(IF id < 0 THEN 0 - id ELSE id, <<>>)

generateShortCode(id) ==
    IF id = 0
    THEN <<base62Chars[1]>>
    ELSE shortCodeLoop(id, <<>>)

\* generateShortCode on the full range of a non-negative int64.  The id is held
\* as five limbs of 15 bits, most significant first, because TLC evaluates with
\* 32-bit integers; wideDivMod is id / 62 and id % 62 by long division.
LimbBase == 2^15
NumLimbs == 5

wideIsZero(limbs) == \A i \in 1..Len(limbs) : limbs[i] = 0

RECURSIVE wideDivModFrom(_, _, _)
wideDivModFrom(limbs, quotient, carry) ==
    IF limbs = <<>>
    THEN [quotient |-> quotient, remainder |-> carry]
    ELSE LET cur == carry * LimbBase + Head(limbs)
         IN  wideDivModFrom(Tail(limbs), Append(quotient, cur \div Base), cur % Base)

wideDivMod(limbs) == wideDivModFrom(limbs, <<>>, 0)

RECURSIVE wideShortCodeLoop(_, _)
wideShortCodeLoop(limbs, result) ==
    IF ~wideIsZero(limbs)
    THEN LET dm == wideDivMod(limbs)
         IN  wideShortCodeLoop(dm.quotient, <<base62Chars[dm.remainder + 1]>> \o result)
    ELSE result

generateShortCodeWide(limbs) ==
    IF wideIsZero(limbs)
    THEN <<base62Chars[1]>>
    ELSE wideShortCodeLoop(limbs, <<>>)

\* The decoder of the specification: left to right, acc = acc * 62 + index(char)
alphabetIndex(c) == (CHOOSE i \in 1..Len(base62Chars) : base62Chars[i] = c) - 1

RECURSIVE decodeFrom(_, _)
decodeFrom(code, acc) ==
    IF code = <<>>
    THEN acc
    ELSE decodeFrom(Tail(code), acc * Base + alphabetIndex(Head(code)))

decode(code) == decodeFrom(code, 0)

----------------------------------------------------------------------------
(* The store *)

MaxCodeLen == 20    \* short_code VARCHAR(20)

NoMapping == [ID |-> 0, ShortCode |-> <<>>, OriginalURL |-> ""]

\* Variant: currval instead of nextval, the sequence is read and not advanced
nextval_currval(s) == s

\* nextval('urls_id_seq')
nextval(s) == s + 1

\* Variant: the next id is computed from the last value without taking it
GetNextID_peek(s, up) ==
    IF up
    THEN [id |-> s + 1, err |-> "nil", seq |-> s]
    ELSE [id |-> 0, err |-> "connection", seq |-> s]

\* Variant: the error of QueryRow(...).Scan is dropped, GetNextID returns (0, nil)
GetNextID_errNil(s, up) ==
    IF up
    THEN [id |-> nextval(s), err |-> "nil", seq |-> nextval(s)]
    ELSE [id |-> 0, err |-> "nil", seq |-> s]

\* Database.GetNextID: SELECT nextval('urls_id_seq'); up = the store answers
GetNextID(s, up) ==
    IF up
    THEN [id |-> nextval(s), err |-> "nil", seq |-> nextval(s)]
    ELSE [id |-> 0, err |-> "connection", seq |-> s]

\* Variant: INSERT ... ON CONFLICT (short_code) DO UPDATE SET original_url
SaveURL_upsert(s, t, shortCode, originalURL, up) ==
    IF ~up
    THEN [id |-> 0, err |-> "connection", seq |-> s, urls |-> t]
    ELSE IF Len(shortCode) > MaxCodeLen
    THEN [id |-> 0, err |-> "value too long", seq |-> nextval(s), urls |-> t]
    ELSE IF \E row \in t : row.short_code = shortCode
    THEN LET old == CHOOSE row \in t : row.short_code = shortCode
         IN  [id |-> old.id, err |-> "nil", seq |-> nextval(s),
              urls |-> (t \ {old}) \cup {[id |-> old.id, short_code |-> shortCode,
                                          original_url |-> originalURL]}]
    ELSE [id |-> nextval(s), err |-> "nil", seq |-> nextval(s),
          urls |-> t \cup {[id |-> nextval(s), short_code |-> shortCode,
                            original_url |-> originalURL]}]

\* Variant: the column is declared short_code VARCHAR(10)
SaveURL_varchar10(s, t, shortCode, originalURL, up) ==
    IF ~up
    THEN [id |-> 0, err |-> "connection", seq |-> s, urls |-> t]
    ELSE IF Len(shortCode) > 10
    THEN [id |-> 0, err |-> "value too long", seq |-> nextval(s), urls |-> t]
    ELSE IF \E row \in t : row.short_code = shortCode
    THEN [id |-> 0, err |-> "unique_violation", seq |-> nextval(s), urls |-> t]
    ELSE [id |-> nextval(s), err |-> "nil", seq |-> nextval(s),
          urls |-> t \cup {[id |-> nextval(s), short_code |-> shortCode,
                            original_url |-> originalURL]}]

\* Variant: the error of QueryRow(...).Scan is dropped, SaveURL returns (0, nil)
SaveURL_ignoreErr(s, t, shortCode, originalURL, up) ==
    IF ~up
    THEN [id |-> 0, err |-> "nil", seq |-> s, urls |-> t]
    ELSE IF Len(shortCode) > MaxCodeLen
    THEN [id |-> 0, err |-> "nil", seq |-> nextval(s), urls |-> t]
    ELSE IF \E row \in t : row.short_code = shortCode
    THEN [id |-> 0, err |-> "nil", seq |-> nextval(s), urls |-> t]
    ELSE [id |-> nextval(s), err |-> "nil", seq |-> nextval(s),
          urls |-> t \cup {[id |-> nextval(s), short_code |-> shortCode,
                            original_url |-> originalURL]}]

\* Database.SaveURL: INSERT INTO urls (short_code, original_url) ... RETURNING id.
\* The id column is SERIAL: its default draws nextval('urls_id_seq') before the
\* row is checked against the constraints, so a rejected row still consumes a value.
SaveURL(s, t, shortCode, originalURL, up) ==
    IF ~up
    THEN [id |-> 0, err |-> "connection", seq |-> s, urls |-> t]
    ELSE IF Len(shortCode) > MaxCodeLen
    THEN [id |-> 0, err |-> "value too long", seq |-> nextval(s), urls |-> t]
    ELSE IF \E row \in t : row.short_code = shortCode
    THEN [id |-> 0, err |-> "unique_violation", seq |-> nextval(s), urls |-> t]
    ELSE [id |-> nextval(s), err |-> "nil", seq |-> nextval(s),
          urls |-> t \cup {[id |-> nextval(s), short_code |-> shortCode,
                            original_url |-> originalURL]}]

\* Variant: the WHERE clause is missing, QueryRow scans the first row of the table
GetURL_noWhere(t, shortCode, up) ==
    IF ~up
    THEN [mapping |-> NoMapping, exists |-> FALSE, err |-> "connection"]
    ELSE IF t # {}
    THEN LET row == CHOOSE row \in t : \A other \in t : row.id <= other.id
         IN  [mapping |-> [ID |-> row.id, ShortCode |-> row.short_code,
                           OriginalURL |-> row.original_url],
              exists |-> TRUE, err |-> "nil"]
    ELSE [mapping |-> NoMapping, exists |-> FALSE, err |-> "nil"]

\* Variant: sql.ErrNoRows is not told apart from the other errors
GetURL_noRowsIsError(t, shortCode, up) ==
    IF ~up
    THEN [mapping |-> NoMapping, exists |-> FALSE, err |-> "connection"]
    ELSE IF \E row \in t : row.short_code = shortCode
    THEN LET row == CHOOSE row \in t : row.short_code = shortCode
         IN  [mapping |-> [ID |-> row.id, ShortCode |-> row.short_code,
                           OriginalURL |-> row.original_url],
              exists |-> TRUE, err |-> "nil"]
    ELSE [mapping |-> NoMapping, exists |-> FALSE, err |-> "sql: no rows in result set"]

\* Database.GetURL: SELECT id, short_code, original_url FROM urls WHERE short_code = $1
GetURL(t, shortCode, up) ==
    IF ~up
    THEN [mapping |-> NoMapping, exists |-> FALSE, err |-> "connection"]
    ELSE IF \E row \in t : row.short_code = shortCode
    THEN LET row == CHOOSE row \in t : row.short_code = shortCode
         IN  [mapping |-> [ID |-> row.id, ShortCode |-> row.short_code,
                           OriginalURL |-> row.original_url],
              exists |-> TRUE, err |-> "nil"]
    ELSE [mapping |-> NoMapping, exists |-> FALSE, err |-> "nil"]

----------------------------------------------------------------------------
(* The HTTP handlers *)

BaseURL == "http://localhost:8080/"

\* Request bodies of POST /shorten: bind = the body parses as JSON
URLs == {"", "https://example.com/a/b", "not a url"}
Bodies == {[bind |-> FALSE, URL |-> ""]} \cup {[bind |-> TRUE, URL |-> u] : u \in URLs}

\* Path parameters of the GET routes: codes the service issues first, and one it
\* does not issue within the bounds
Params == {<<"1">>, <<"2">>, <<"3">>, <<"Z", "Z">>}

NoReq == [URL |-> "", id |-> 0, shortCode |-> <<>>]

NoLog == <<>>

\* A response: the route and its path parameter, the status and JSON body or
\* Location header, and the line the handler logged.  url and drawn record the
\* URL of the request and the sequence values the request consumed.
Response(handler, param, status, message, shortCode, shortURL, location, mapping, logged, url, drawn) ==
    [handler |-> handler, param |-> param, status |-> status, message |-> message,
     ShortCode |-> shortCode, ShortURL |-> shortURL, Location |-> location,
     mapping |-> mapping, logged |-> logged, url |-> url, drawn |-> drawn]

NoResp == Response("", <<>>, 0, "", <<>>, <<>>, "", NoMapping, NoLog, "", {})

ErrorResponse(handler, param, status, message, logged, url, drawn) ==
    Response(handler, param, status, message, <<>>, <<>>, "", NoMapping,
             logged, url, drawn)

\* Variant: the check for an empty URL is missing
validURL_none(url) == TRUE

\* Variant: the URL must also parse as an absolute URL
validURL_strict(url) == url \notin {"", "not a url"}

\* if req.URL == "" { return 400 }
validURL(url) == url # ""

\* POST /shorten, up to and including generateShortCode
ShortenStart(r, body, up) ==
    /\ pc[r] = "idle"
    /\ IF ~body.bind
       THEN /\ resp' = ErrorResponse("shorten", <<>>, 400, "Invalid request body",
                                     NoLog, body.URL, {})
            /\ UNCHANGED <<seq, urls, pc, req, allocated, created>>
       ELSE IF ~validURL(body.URL)
       THEN /\ resp' = ErrorResponse("shorten", <<>>, 400, "URL is required",
                                     NoLog, body.URL, {})
            /\ UNCHANGED <<seq, urls, pc, req, allocated, created>>
       ELSE LET got == GetNextID(seq, up) IN
            /\ got.seq <= MaxSeq
            /\ seq' = got.seq
            /\ IF got.err # "nil"
               THEN /\ resp' = ErrorResponse("shorten", <<>>, 500,
                                             "Failed to generate short code",
                                             <<"Error getting next ID:", got.err>>,
                                             body.URL, {})
                    /\ UNCHANGED <<urls, pc, req, allocated, created>>
               ELSE /\ pc' = [pc EXCEPT ![r] = "save"]
                    /\ req' = [req EXCEPT ![r] =
                                  [URL |-> body.URL, id |-> got.id,
                                   shortCode |-> generateShortCode(got.id)]]
                    /\ allocated' = Append(allocated, got.id)
                    /\ UNCHANGED <<urls, resp, created>>
    /\ UNCHANGED harnessVars

\* POST /shorten, from db.SaveURL to the response
ShortenSave(r, up) ==
    /\ pc[r] = "save"
    /\ LET saved == SaveURL(seq, urls, req[r].shortCode, req[r].URL, up)
           drawn == {req[r].id} \cup ((seq + 1)..saved.seq)
       IN
       /\ saved.seq <= MaxSeq
       /\ seq' = saved.seq
       /\ urls' = saved.urls
       /\ IF saved.err # "nil"
          THEN /\ resp' = ErrorResponse("shorten", <<>>, 500, "Failed to save URL",
                                        <<"Error saving URL:", saved.err>>,
                                        req[r].URL, drawn)
               /\ UNCHANGED created
          ELSE /\ resp' = Response("shorten", <<>>, 201, "", req[r].shortCode,
                                   <<BaseURL>> \o req[r].shortCode, "", NoMapping,
                                   NoLog, req[r].URL, drawn)
               /\ created' = created (+) SetToBag({[short_code |-> req[r].shortCode,
                                                    url |-> req[r].URL]})
    /\ pc' = [pc EXCEPT ![r] = "idle"]
    /\ req' = [req EXCEPT ![r] = NoReq]
    /\ UNCHANGED allocated
    /\ UNCHANGED harnessVars

\* Variant: a link is single-use, the row is deleted when it is redirected to
Redirect_deleteOnHit(shortCode, up) ==
    /\ LET got == GetURL(urls, shortCode, up) IN
       /\ resp' = IF got.err # "nil"
                  THEN ErrorResponse("redirect", shortCode, 500, "Database error",
                                     <<"Error retrieving URL:", got.err>>, "", {})
                  ELSE IF ~got.exists
                  THEN ErrorResponse("redirect", shortCode, 404, "Short URL not found",
                                     NoLog, "", {})
                  ELSE Response("redirect", shortCode, 301, "", <<>>, <<>>,
                                got.mapping.OriginalURL, NoMapping, NoLog, "", {})
       /\ urls' = {row \in urls : ~(up /\ row.short_code = shortCode)}
    /\ UNCHANGED <<seq, pc, req, allocated, created>>
    /\ UNCHANGED harnessVars

\* GET /:shortCode
Redirect(shortCode, up) ==
    /\ LET got == GetURL(urls, shortCode, up) IN
       resp' = IF got.err # "nil"
               THEN ErrorResponse("redirect", shortCode, 500, "Database error",
                                  <<"Error retrieving URL:", got.err>>, "", {})
               ELSE IF ~got.exists
               THEN ErrorResponse("redirect", shortCode, 404, "Short URL not found",
                                  NoLog, "", {})
               ELSE Response("redirect", shortCode, 301, "", <<>>, <<>>,
                             got.mapping.OriginalURL, NoMapping, NoLog, "", {})
    /\ UNCHANGED <<seq, urls, pc, req, allocated, created>>
    /\ UNCHANGED harnessVars

\* GET /api/stats/:shortCode
Stats(shortCode, up) ==
    /\ LET got == GetURL(urls, shortCode, up) IN
       resp' = IF got.err # "nil"
               THEN ErrorResponse("stats", shortCode, 500, "Database error",
                                  <<"Error retrieving URL:", got.err>>, "", {})
               ELSE IF ~got.exists
               THEN ErrorResponse("stats", shortCode, 404, "Short URL not found",
                                  NoLog, "", {})
               ELSE Response("stats", shortCode, 200, "", <<>>, <<>>, "",
                             got.mapping, NoLog, "", {})
    /\ UNCHANGED <<seq, urls, pc, req, allocated, created>>
    /\ UNCHANGED harnessVars

\* Variant: InitSchema drops and recreates the table (and with it the sequence)
Restart_reset ==
    /\ pc' = [r \in Reqs |-> "idle"]
    /\ req' = [r \in Reqs |-> NoReq]
    /\ seq' = 0
    /\ urls' = {}
    /\ UNCHANGED <<resp, allocated, created>>
    /\ UNCHANGED harnessVars

\* The process stops and main runs again: the requests in flight are gone, the
\* database is where it was (InitSchema's CREATE ... IF NOT EXISTS changes nothing)
Restart ==
    /\ pc' = [r \in Reqs |-> "idle"]
    /\ req' = [r \in Reqs |-> NoReq]
    /\ UNCHANGED <<seq, urls, resp, allocated, created>>
    /\ UNCHANGED harnessVars

----------------------------------------------------------------------------
(* The service: the state after InitSchema on an empty database *)

\* What a Database method returned: err, and the method's other results
Return(op, shortCode, url, id, exists, mapping, err) ==
    [op |-> op, shortCode |-> shortCode, url |-> url, id |-> id,
     exists |-> exists, mapping |-> mapping, err |-> err]

NoRet == Return("", <<>>, "", 0, FALSE, NoMapping, "nil")

EncIdle ==
    /\ encA = 0 /\ encB = 0
    /\ outA = <<>> /\ outB = <<>>
    /\ decA = 0
    /\ encPc = "off"

StoreIdle == ret = NoRet

WideIdle == wideId = <<>> /\ wideCode = <<>>

SvcInit ==
    /\ seq = 0
    /\ urls = {}
    /\ pc = [r \in Reqs |-> "idle"]
    /\ req = [r \in Reqs |-> NoReq]
    /\ resp = NoResp
    /\ allocated = <<>>
    /\ created = EmptyBag

Init == SvcInit /\ EncIdle /\ StoreIdle /\ WideIdle

Next ==
    \/ \E r \in Reqs, body \in Bodies, up \in BOOLEAN : ShortenStart(r, body, up)
    \/ \E r \in Reqs, up \in BOOLEAN : ShortenSave(r, up)
    \/ \E shortCode \in Params, up \in BOOLEAN : Redirect(shortCode, up)
    \/ \E shortCode \in Params, up \in BOOLEAN : Stats(shortCode, up)
    \/ Restart

Spec == Init /\ [][Next]_vars

----------------------------------------------------------------------------
(* The encoder harness: generateShortCode applied to a pair of inputs, and *)
(* the result for the first input decoded again                            *)

Examples == {61, 62, 3843, 3844, 15432, 1000000}
EncInputs == ((0 - MaxNeg)..MaxN) \cup Examples

EncInit ==
    /\ SvcInit /\ StoreIdle /\ WideIdle
    /\ encA \in EncInputs /\ encB \in EncInputs
    /\ outA = <<>> /\ outB = <<>>
    /\ decA = 0
    /\ encPc = "input"

Encode ==
    /\ encPc = "input"
    /\ outA' = generateShortCode(encA)
    /\ outB' = generateShortCode(encB)
    /\ encPc' = "encoded"
    /\ UNCHANGED <<encA, encB, decA, ret, wideId, wideCode>>
    /\ UNCHANGED svcVars

Decode ==
    /\ encPc = "encoded"
    /\ decA' = decode(outA)
    /\ encPc' = "decoded"
    /\ UNCHANGED <<encA, encB, outA, outB, ret, wideId, wideCode>>
    /\ UNCHANGED svcVars

EncNext == Encode \/ Decode

EncSpec == EncInit /\ [][EncNext]_vars

----------------------------------------------------------------------------
(* The 64-bit encoder harness: generateShortCode applied to identifiers up *)
(* to 2^63 - 1                                                             *)

MaxInt64 == <<7, 32767, 32767, 32767, 32767>>       \* 2^63 - 1
Pow62_10 == <<0, 23854, 10574, 9622, 1024>>         \* 62^10, the first 11-digit id
Pow62_10m1 == <<0, 23854, 10574, 9622, 1023>>       \* 62^10 - 1, the last 10-digit id

LimbSamples == {0, 1, 61, 62, LimbBase - 1}
WideInputs ==
    {limbs \in [1..NumLimbs -> LimbSamples] : limbs[1] <= 7}
       \cup {[i \in 1..NumLimbs |-> IF i = 1 THEN 7 ELSE limbs[i]] :
                limbs \in [1..NumLimbs -> LimbSamples]}
       \cup {MaxInt64, Pow62_10, Pow62_10m1}

\* The value of an id that fits 30 bits
wideSmallValue(limbs) == limbs[NumLimbs - 1] * LimbBase + limbs[NumLimbs]
wideIsSmall(limbs) == \A i \in 1..(NumLimbs - 2) : limbs[i] = 0

WideInit ==
    /\ SvcInit /\ EncIdle /\ StoreIdle
    /\ wideId \in WideInputs
    /\ wideCode = <<>>

EncodeWide ==
    /\ wideCode = <<>>
    /\ wideCode' = generateShortCodeWide(wideId)
    /\ UNCHANGED wideId
    /\ UNCHANGED <<encVars, ret>>
    /\ UNCHANGED svcVars

WideNext == EncodeWide

WideSpec == WideInit /\ [][WideNext]_vars

----------------------------------------------------------------------------
(* The store harness: the methods of Database called directly, in any order *)
(* and with any arguments, on the freshly initialised database             *)

LongCode == [i \in 1..(MaxCodeLen + 1) |-> "Z"]
StoreCodes == {<<"1">>, <<"2">>, LongCode}
StoreURLs == URLs \ {""}

CallGetNextID(up) ==
    /\ LET got == GetNextID(seq, up) IN
       /\ got.seq <= MaxStoreSeq
       /\ seq' = got.seq
       /\ ret' = Return("GetNextID", <<>>, "", got.id, FALSE, NoMapping, got.err)
    /\ UNCHANGED <<urls, pc, req, resp, allocated, created>>
    /\ UNCHANGED <<encVars, wideId, wideCode>>

CallSaveURL(shortCode, originalURL, up) ==
    /\ LET saved == SaveURL(seq, urls, shortCode, originalURL, up) IN
       /\ saved.seq <= MaxStoreSeq
       /\ seq' = saved.seq
       /\ urls' = saved.urls
       /\ ret' = Return("SaveURL", shortCode, originalURL, saved.id, FALSE, NoMapping,
                        saved.err)
    /\ UNCHANGED <<pc, req, resp, allocated, created>>
    /\ UNCHANGED <<encVars, wideId, wideCode>>

CallGetURL(shortCode, up) ==
    /\ LET got == GetURL(urls, shortCode, up) IN
       ret' = Return("GetURL", shortCode, "", 0, got.exists, got.mapping, got.err)
    /\ UNCHANGED <<seq, urls, pc, req, resp, allocated, created>>
    /\ UNCHANGED <<encVars, wideId, wideCode>>

StoreNext ==
    \/ \E up \in BOOLEAN : CallGetNextID(up)
    \/ \E shortCode \in StoreCodes, originalURL \in StoreURLs, up \in BOOLEAN :
          CallSaveURL(shortCode, originalURL, up)
    \/ \E shortCode \in StoreCodes, up \in BOOLEAN : CallGetURL(shortCode, up)

StoreSpec == Init /\ [][StoreNext]_vars

----------------------------------------------------------------------------
(* Properties of the service (specification Spec) *)

Created == BagToSet(created)

\* C1: once a creation has persisted (code, url), the store's lookup of code finds
\* a record with exactly that url in every later state, and every redirect or stats
\* response for that code that the store answered carries that url.
C1_ResolveReturnsCreatedURL ==
    /\ \A c \in Created :
          LET got == GetURL(urls, c.short_code, TRUE)
          IN  got.exists /\ got.err = "nil" /\ got.mapping.OriginalURL = c.url
    /\ \A c \in Created :
          (resp.param = c.short_code /\ resp.logged = NoLog) =>
             /\ resp.handler = "redirect" =>
                   resp.status = 301 /\ resp.Location = c.url
             /\ resp.handler = "stats" =>
                   resp.status = 200 /\ resp.mapping.OriginalURL = c.url

\* C1 witness: two mappings exist and a redirect for one of them has been answered
C1_Witness ==
    /\ Cardinality(Created) >= 2
    /\ resp.handler = "redirect" /\ resp.status = 301
    /\ \E c \in Created : c.short_code = resp.param /\ c.url = resp.Location
    /\ \E c, d \in Created : c.url # d.url

\* C2: under concurrent creations no two successful requests are issued the same
\* code, no two rows share a code, requests in flight hold different codes and
\* SaveURL is never rejected as a duplicate.
C2_CodesUnique ==
    /\ \A x, y \in urls : x.short_code = y.short_code => x = y
    /\ \A c \in Created : CopiesIn(c, created) = 1
    /\ \A c, d \in Created : c.short_code = d.short_code => c = d
    /\ \A r1, r2 \in Reqs :
          (r1 # r2 /\ pc[r1] = "save" /\ pc[r2] = "save") =>
             req[r1].shortCode # req[r2].shortCode
    /\ resp.logged # <<"Error saving URL:", "unique_violation">>

\* C2 witness: a creation completed while another one, which drew its identifier
\* earlier, is still between GetNextID and SaveURL
C2_Witness ==
    /\ resp.handler = "shorten" /\ resp.status = 201
    /\ Cardinality(urls) >= 2
    /\ \E r \in Reqs : pc[r] = "save" /\ \A d \in resp.drawn : req[r].id < d

\* C3: the identifiers returned by GetNextID are pairwise distinct.
C3_AllocatedDistinct ==
    \A i, j \in 1..Len(allocated) : i # j => allocated[i] # allocated[j]

\* C3 witness: three allocations, two of them by requests that are concurrently
\* between GetNextID and SaveURL, with a row inserted in between
C3_Witness ==
    /\ Len(allocated) >= 3
    /\ \A r \in Reqs : pc[r] = "save"
    /\ urls # {}

\* C4: every row's short code is the Base62 encoding of that row's id.
C4_CodeEncodesRowId ==
    \A row \in urls : row.short_code = generateShortCode(row.id)

\* C5: a successful creation draws exactly one value from the sequence, and that
\* value is the id of the row it created.
C5_OneIdentifierPerCreation ==
    (resp.handler = "shorten" /\ resp.status = 201) =>
       /\ Cardinality(resp.drawn) = 1
       /\ \A row \in urls : row.short_code = resp.ShortCode => resp.drawn = {row.id}

\* C10: a creation request with an empty URL is answered 400, holds no identifier,
\* never reaches SaveURL, and the step that answers it leaves the sequence and the
\* table as they were.
C10_EmptyURLState ==
    /\ \A r \in Reqs : pc[r] = "save" => req[r].URL # ""
    /\ \A row \in urls : row.original_url # ""
    /\ (resp.handler = "shorten" /\ resp.url = "") =>
          resp.status = 400 /\ resp.drawn = {}

C10_EmptyURLStep ==
    (resp' # resp /\ resp'.handler = "shorten" /\ resp'.url = "") =>
       /\ seq' = seq
       /\ urls' = urls
       /\ allocated' = allocated

C10_EmptyURLRejected == [](C10_EmptyURLState) /\ [][C10_EmptyURLStep]_vars

\* C10 witness: an empty URL was rejected on a store that holds mappings
C10_Witness ==
    /\ resp.handler = "shorten" /\ resp.url = ""
    /\ resp.status = 400 /\ resp.message = "URL is required"
    /\ seq > 0 /\ urls # {}

----------------------------------------------------------------------------
(* Properties of the code generator (specification EncSpec) *)

\* C6: decoding generateShortCode(n) gives n back, for every n >= 0.
C6_RoundTrip ==
    (encPc = "decoded" /\ encA >= 0) => decA = encA

\* C6 witness: a three-digit code has been decoded
C6_Witness ==
    encPc = "decoded" /\ encA = 3844 /\ Len(outA) = 3 /\ decA = 3844

\* C7: generateShortCode is injective on the non-negative integers.
C7_Injective ==
    (encPc # "input" /\ 0 <= encA /\ encA < encB) => outA # outB

\* C7 witness: two inputs with the same leading digit and different lengths
C7_Witness ==
    encPc = "encoded" /\ encA = 1 /\ encB = 62 /\ Head(outA) = Head(outB)

\* C8: generateShortCode(15432) is "3dE".
C8_Example15432 ==
    (encPc # "input" /\ encA = 15432) => outA = <<"3", "d", "E">>

\* C9: generateShortCode(0) = "0", generateShortCode(n) is the single character
\* alphabet[n] for 0 <= n <= 61 (so 61 gives "Z"), 62 gives "10" and 1000000 "4c92".
C9_DigitBoundaries ==
    encPc # "input" =>
       /\ encA = 0 => outA = <<"0">>
       /\ (0 <= encA /\ encA <= 61) => outA = <<base62Chars[encA + 1]>>
       /\ encA = 61 => outA = <<"Z">>
       /\ encA = 62 => outA = <<"1", "0">>
       /\ encA = 1000000 => outA = <<"4", "c", "9", "2">>

\* C9 witness: the inputs 0 and 1000000 have been encoded
C9_Witness ==
    encPc = "encoded" /\ encA = 0 /\ encB = 1000000 /\ Len(outA) = 1 /\ Len(outB) = 4

----------------------------------------------------------------------------
(* Further properties of the service (specification Spec) *)

NeverCreated(shortCode) == \A c \in Created : c.short_code # shortCode

\* C11: for a code no record was ever created for, the lookup the store answers is
\* "not found" with a nil error, and the redirect and stats handlers answer 404.
C11_NeverCreatedNotFound ==
    \A p \in Params :
       NeverCreated(p) =>
          /\ GetURL(urls, p, TRUE) = [mapping |-> NoMapping, exists |-> FALSE,
                                      err |-> "nil"]
          /\ (resp.handler \in {"redirect", "stats"} /\ resp.param = p
                 /\ resp.logged = NoLog) =>
                resp.status = 404 /\ resp.message = "Short URL not found"

\* C11 witness: a stats lookup of a code never created is answered 404 while the
\* table holds other mappings
C11_Witness ==
    /\ resp.handler = "stats" /\ resp.status = 404
    /\ NeverCreated(resp.param)
    /\ urls # {}

\* C13: every identifier GetNextID returns is greater than all it returned before,
\* also when the process restarted in between, and none exceeds the sequence.
C13_AllocationMonotonic ==
    /\ \A i, j \in 1..Len(allocated) : i < j => allocated[i] < allocated[j]
    /\ \A i \in 1..Len(allocated) : allocated[i] <= seq

\* C13 witness: more identifiers were allocated than requests can be in flight and
\* no response was ever written, so a restart lies between two of the allocations
C13_Witness ==
    /\ Len(allocated) > NumReqs
    /\ resp = NoResp
    /\ \E r \in Reqs : pc[r] = "save" /\ req[r].id = allocated[Len(allocated)]

\* URLs of the request bodies that are not well-formed URLs
MalformedURLs == {"not a url"}

\* C14 as stated: a creation whose URL is empty or malformed is answered 400 when
\* the store answers, and no row holds such a URL.
C14_MalformedRejected ==
    /\ (resp.handler = "shorten" /\ resp.logged = NoLog
           /\ resp.url \in MalformedURLs \cup {""}) => resp.status = 400
    /\ \A row \in urls : row.original_url \notin MalformedURLs \cup {""}

\* C14 as amended: a creation is answered 400 exactly when its body does not parse
\* or its URL is empty, such a request holds no identifier and persists nothing;
\* every non-empty URL, well-formed or not, goes on to the store.
C14_OnlyEmptyState ==
    /\ (resp.handler = "shorten" /\ resp.logged = NoLog) =>
          (resp.status = 400 <=> resp.url = "")
    /\ (resp.handler = "shorten" /\ resp.status = 400) =>
          /\ resp.drawn = {}
          /\ resp.message \in {"Invalid request body", "URL is required"}
    /\ \A row \in urls : row.original_url # ""

C14_OnlyEmptyStep ==
    (resp' # resp /\ resp'.handler = "shorten" /\ resp'.status = 400) =>
       UNCHANGED <<seq, urls, pc, req, allocated, created>>

C14_OnlyEmptyRejected == [](C14_OnlyEmptyState) /\ [][C14_OnlyEmptyStep]_vars

\* C14 witness: an unparsable body was answered 400 while the table holds a
\* malformed URL that an earlier request created
C14_Witness ==
    /\ resp.handler = "shorten" /\ resp.status = 400
    /\ resp.message = "Invalid request body"
    /\ \E row \in urls : row.original_url \in MalformedURLs

\* C15: a POST /shorten is answered 201 exactly when its step inserted the row
\* (code, submitted url) and then short_url is the base URL followed by the code,
\* 400 exactly when the body is invalid or the URL empty, 500 exactly when a store
\* call failed; a GET is answered 301 (stats: 200) with the stored URL on a hit,
\* 404 on a miss and 500 when the store call failed.
C15_PostStep ==
    (resp' # resp /\ resp'.handler = "shorten") =>
       /\ resp'.status \in {201, 400, 500}
       /\ resp'.status = 201 <=> urls' # urls
       /\ resp'.status = 201 =>
             /\ \E id \in resp'.drawn :
                   urls' = urls \cup {[id |-> id, short_code |-> resp'.ShortCode,
                                       original_url |-> resp'.url]}
             /\ resp'.ShortURL = <<"http://localhost:8080/">> \o resp'.ShortCode
             /\ resp'.ShortCode # <<>>
       /\ resp'.status = 400 <=> resp'.url = ""
       /\ resp'.status = 500 <=> resp'.logged # NoLog

C15_GetStep ==
    (resp' # resp /\ resp'.handler \in {"redirect", "stats"}) =>
       LET hit == {row \in urls : row.short_code = resp'.param} IN
       /\ urls' = urls
       /\ resp'.status = 500 <=> resp'.logged # NoLog
       /\ resp'.status = 404 <=> (resp'.logged = NoLog /\ hit = {})
       /\ (resp'.logged = NoLog /\ hit # {}) =>
             \E row \in hit :
                IF resp'.handler = "redirect"
                THEN resp'.status = 301 /\ resp'.Location = row.original_url
                ELSE /\ resp'.status = 200
                     /\ resp'.mapping = [ID |-> row.id, ShortCode |-> row.short_code,
                                         OriginalURL |-> row.original_url]

C15_StoreStep ==
    urls' # urls => (resp' # resp /\ resp'.handler = "shorten" /\ resp'.status = 201)

C15_OutcomeMatchesStore ==
    [][C15_PostStep /\ C15_GetStep /\ C15_StoreStep]_vars

\* C15 witness: a second creation was answered 201 with its short URL
C15_Witness ==
    /\ resp.handler = "shorten" /\ resp.status = 201
    /\ resp.ShortURL = <<BaseURL>> \o resp.ShortCode
    /\ Cardinality(urls) >= 2
    /\ \E row \in urls : row.short_code = resp.ShortCode /\ row.original_url = resp.url

\* C16: a request reaches SaveURL only with an identifier GetNextID returned; when
\* GetNextID fails the request ends there with 500; when SaveURL fails the request
\* ends with 500 and is not continued; in both cases the table is unchanged, and
\* the code of a request that has not saved, or failed to, resolves to not found.
C16_NoPartialState ==
    \A r \in Reqs :
       pc[r] = "save" =>
          /\ req[r].id >= 1
          /\ \E i \in 1..Len(allocated) : allocated[i] = req[r].id
          /\ ~GetURL(urls, req[r].shortCode, TRUE).exists

C16_AllocationFailedStep ==
    (resp' # resp /\ resp'.message = "Failed to generate short code") =>
       /\ resp'.status = 500
       /\ UNCHANGED <<seq, urls, pc, req, allocated, created>>

C16_SaveFailedStep ==
    \A r \in Reqs :
       (pc[r] = "save" /\ pc'[r] = "idle" /\ resp' # resp /\ resp'.status # 201) =>
          /\ resp'.status = 500 /\ resp'.message = "Failed to save URL"
          /\ urls' = urls
          /\ req'[r] = NoReq
          /\ ~GetURL(urls', req[r].shortCode, TRUE).exists
          /\ \A q \in Reqs \ {r} : pc'[q] = pc[q] /\ req'[q] = req[q]

C16_FailureSurfaced ==
    [](C16_NoPartialState) /\ [][C16_AllocationFailedStep /\ C16_SaveFailedStep]_vars

\* C16 witness: SaveURL failed for a request on a table that holds a mapping, and
\* the request consumed nothing but its own identifier
C16_Witness ==
    /\ resp.handler = "shorten" /\ resp.status = 500
    /\ resp.message = "Failed to save URL"
    /\ Cardinality(resp.drawn) = 1
    /\ urls # {}

\* C17: a redirect or stats request, on hit, miss or error, changes nothing but the
\* response: sequence, table and requests in flight stay, so every lookup gives
\* afterwards what it gave before.
C17_LookupStep ==
    (resp' # resp /\ resp'.handler \in {"redirect", "stats"}) =>
       /\ UNCHANGED <<seq, urls, pc, req, allocated, created>>
       /\ \A p \in Params : GetURL(urls', p, TRUE) = GetURL(urls, p, TRUE)

C17_LookupReadOnly == [][C17_LookupStep]_vars

\* C17 witness: a stats lookup hit a row while a creation is in flight
C17_Witness ==
    /\ resp.handler = "stats" /\ resp.status = 200
    /\ resp.mapping.ID > 0
    /\ \E r \in Reqs : pc[r] = "save"

----------------------------------------------------------------------------
(* Properties of the store (specification StoreSpec) *)

\* C12: SaveURL with a code the table already holds returns an error and no id,
\* and leaves the table, so also the record of that code, as it was.
C12_DuplicateStep ==
    (/\ ret'.op = "SaveURL"
     /\ <<seq, urls, ret>>' # <<seq, urls, ret>>
     /\ \E row \in urls : row.short_code = ret'.shortCode) =>
       /\ ret'.err # "nil"
       /\ ret'.id = 0
       /\ urls' = urls
       /\ GetURL(urls', ret'.shortCode, TRUE) = GetURL(urls, ret'.shortCode, TRUE)

C12_DuplicateRejected == [][C12_DuplicateStep]_vars

\* C12 witness: SaveURL was rejected for a code whose record holds another URL
C12_Witness ==
    /\ ret.op = "SaveURL" /\ ret.err = "unique_violation"
    /\ \E row \in urls : row.short_code = ret.shortCode /\ row.original_url # ret.url

----------------------------------------------------------------------------
(* Further properties of the code generator (specifications EncSpec, WideSpec) *)

Alphabet == {base62Chars[i] : i \in 1..Len(base62Chars)}

\* The number of base-62 digits of n, for 0 <= n < 62^5
digitCount(n) == CHOOSE k \in 1..5 : n < Base^k /\ (k = 1 \/ n >= Base^(k - 1))

\* C18: for id >= 0 the code is not empty, consists of alphabet characters, starts
\* with "0" only for id = 0, and has as many characters as id has base-62 digits.
C18_CanonicalForm ==
    (encPc # "input" /\ encA >= 0) =>
       /\ Len(outA) >= 1
       /\ \A i \in 1..Len(outA) : outA[i] \in Alphabet
       /\ outA[1] = "0" => encA = 0
       /\ Len(outA) = digitCount(encA)

\* C18 witness: the last two-digit and the first three-digit identifier are encoded
C18_Witness ==
    /\ encPc = "encoded"
    /\ encA = 3843 /\ Len(outA) = 2
    /\ encB = 3844 /\ Len(outB) = 3

\* C20: for id < 0 the code is the empty string, so any two negative ids get the
\* same code, and that code is not one a non-negative id gets.
C20_NegativeEmpty ==
    (encPc # "input" /\ encA < 0) =>
       /\ outA = <<>>
       /\ encB < 0 => outB = outA
       /\ encB >= 0 => outB # outA

\* C20 witness: two different negative ids have been encoded to the empty code
C20_Witness ==
    /\ encPc = "encoded"
    /\ encA < 0 /\ encB < 0 /\ encA # encB
    /\ outA = <<>> /\ outB = <<>>

\* C19: for 0 <= id <= 2^63 - 1 the code has at most 11 characters, which is within
\* the VARCHAR(20) of short_code, so SaveURL does not reject it for its length;
\* where id fits the 32-bit integers the code is the one generateShortCode gives.
C19_CodeFitsColumn ==
    wideCode # <<>> =>
       /\ Len(wideCode) <= 11
       /\ Len(wideCode) <= MaxCodeLen
       /\ SaveURL(0, {}, wideCode, "https://example.com/a/b", TRUE).err = "nil"
       /\ wideIsSmall(wideId) => wideCode = generateShortCode(wideSmallValue(wideId))

\* C19 witness: 2^63 - 1 has been encoded to its 11 characters
C19_Witness ==
    /\ wideId = MaxInt64
    /\ wideCode = <<"a", "Z", "l", "8", "N", "0", "y", "5", "8", "M", "7">>

====
